---- MODULE Spec2Model ----
(***************************************************************************)
(* Model of the suprsales API client: src/tools.py and                     *)
(* src/python-version/tools.py.                                            *)
(*                                                                         *)
(* The remote server is the environment: how an HTTP request ends          *)
(* (reqOutcome, status) and the response body (body) are drawn in Init.    *)
(* A body is a sequence of lexical tokens; response.json() and             *)
(* json.loads() are the same recursive-descent JSON parser over those      *)
(* tokens, str.strip() is the removal of leading and trailing Python       *)
(* whitespace, which is more than the whitespace JSON skips.  Every        *)
(* function of the two files is one action, which records how the call     *)
(* ended (exit), the value it returned (result), the exception that left   *)
(* it (exc), the request it sent, the number of JSON parses it attempted,  *)
(* the final value of its local variable `response` and what it printed.   *)
(***************************************************************************)
EXTENDS Integers, Sequences, FiniteSets, TLC

VARIABLES reqOutcome, status, body, fn, data, distributor_id, mode,
          exit, result, exc, request, parses, response, stdout

env  == <<reqOutcome, status, body>>
call == <<fn, data, distributor_id, mode, exit, result, exc, request, parses,
          response, stdout>>
vars == <<reqOutcome, status, body, fn, data, distributor_id, mode,
          exit, result, exc, request, parses, response, stdout>>

-----------------------------------------------------------------------------
(* Bounds of the model *)

\* longest JSON array the server sends
MaxItems == 3

-----------------------------------------------------------------------------
(* Python values *)

None == [t |-> "None"]
PyInt(n) == [t |-> "int", n |-> n]
PyStr(cs) == [t |-> "str", chars |-> cs]
PyList(xs) == [t |-> "list", items |-> xs]
PyDict(d) == [t |-> "dict", d |-> d]

EmptyList == PyList(<<>>)

isinstance_dict(x) == x.t = "dict"
HasKey(x, k) == k \in DOMAIN x.d

-----------------------------------------------------------------------------
(* The response body: tokens, JSON parsing, stripping *)

\* whitespace JSON allows between tokens (space, \t, \n, \r): "sp";
\* whitespace only str.strip() removes (\f, \v, ...): "ff"
JsonWs == {"sp"}
PyWs == {"sp", "ff"}

\* tokens that are a complete JSON value
AtomToks == {"null", "str", "E1", "E2", "T10", "T50"}

AtomVal(tok) ==
  CASE tok = "null" -> None
    [] tok = "str"  -> PyStr(<<"a", "b">>)
    [] tok = "E1"   -> PyDict([EMP_ID |-> PyStr(<<"1">>)])
    [] tok = "E2"   -> PyDict([EMP_ID |-> PyStr(<<"2">>)])
    [] tok = "T10"  -> PyDict([TOTAL_SALES |-> PyInt(10), CUSTOMER_ID |-> PyInt(1)])
    [] tok = "T50"  -> PyDict([TOTAL_SALES |-> PyInt(50), CUSTOMER_ID |-> PyInt(2)])
    [] OTHER        -> None

RECURSIVE SkipWs(_)
SkipWs(s) == IF s # <<>> /\ Head(s) \in JsonWs THEN SkipWs(Tail(s)) ELSE s

ParseFail == [ok |-> FALSE]

RECURSIVE ParseValue(_), ParseArray(_, _)
\* one JSON value at the front of s, after optional JSON whitespace
ParseValue(s) ==
  LET r == SkipWs(s) IN
  IF r = <<>> THEN ParseFail
  ELSE IF Head(r) \in AtomToks
    THEN [ok |-> TRUE, val |-> AtomVal(Head(r)), rest |-> Tail(r)]
  ELSE IF Head(r) = "["
    THEN LET a == SkipWs(Tail(r)) IN
         IF a # <<>> /\ Head(a) = "]"
           THEN [ok |-> TRUE, val |-> EmptyList, rest |-> Tail(a)]
           ELSE ParseArray(a, <<>>)
  ELSE ParseFail

\* the elements of an array, s standing at the start of an element
ParseArray(s, acc) ==
  LET v == ParseValue(s) IN
  IF ~v.ok THEN ParseFail
  ELSE LET r == SkipWs(v.rest) IN
       IF r = <<>> THEN ParseFail
       ELSE IF Head(r) = "," THEN ParseArray(Tail(r), Append(acc, v.val))
       ELSE IF Head(r) = "]"
         THEN [ok |-> TRUE, val |-> PyList(Append(acc, v.val)), rest |-> Tail(r)]
       ELSE ParseFail

\* json.loads(text): the whole text is one JSON value, else ValueError
json_loads(s) ==
  LET v == ParseValue(s) IN
  IF v.ok /\ SkipWs(v.rest) = <<>> THEN [ok |-> TRUE, val |-> v.val] ELSE ParseFail

\* response.json(): json.loads of the decoded body
response_json(b) == json_loads(b)

RECURSIVE lstrip(_)
lstrip(s) == IF s # <<>> /\ Head(s) \in PyWs THEN lstrip(Tail(s)) ELSE s

RECURSIVE rstrip(_)
rstrip(s) ==
  IF s # <<>> /\ s[Len(s)] \in PyWs THEN rstrip(SubSeq(s, 1, Len(s) - 1)) ELSE s

\* text.strip()
strip(s) == rstrip(lstrip(s))

-----------------------------------------------------------------------------
(* The environment: what the server can answer *)

\* how requests.get ends: an exception of the transport, or a response, which
\* has a status code
TransportFailures == {"ConnectionError", "Timeout"}
Outcomes == TransportFailures \cup {"response"}
Statuses == {200, 304, 404, 500}

ElemToks == {"null", "E1", "E2", "T10", "T50"}

RECURSIVE Join(_)
Join(toks) ==
  IF Len(toks) <= 1 THEN toks ELSE <<Head(toks), ",">> \o Join(Tail(toks))

ArrayText(toks) == <<"[">> \o Join(toks) \o <<"]">>

WellFormed ==
  {ArrayText(l) : l \in UNION {[1..k -> ElemToks] : k \in 0..MaxItems}}
    \cup {<<t>> : t \in AtomToks}

\* a well-formed text cut short
Truncated == {SubSeq(c, 1, Len(c) - 1) : c \in WellFormed}

\* whitespace in front of the text or behind it
Pads == {<<"sp">>, <<"ff">>}

Padded ==
  LET texts == WellFormed \cup Truncated IN
  texts \cup {w \o c : w \in Pads, c \in texts} \cup {c \o w : w \in Pads, c \in texts}

\* whitespace after the first token of an array
Spaced == {<<"[", w>> \o Tail(c) : w \in PyWs, c \in {x \in WellFormed : Len(x) >= 2}}

Bodies == Padded \cup Spaced

\* what a response with another status than 200 carries
ShortBodies == {b \in WellFormed \cup Truncated : Len(b) <= 3}

DistributorIds == {10001520, 10001515}
Filters == {"all", "id", "name"}
Modes == {"top", "bottom"}

-----------------------------------------------------------------------------
(* How a call ends *)

NoRequest == [endpoint |-> "none", id |-> 0, accept |-> "none", timeout |-> 0]
EmployeeRequest == [endpoint |-> "employee", id |-> 0, accept |-> "application/json", timeout |-> 15]
\* requests.get(f".../topDistributor?id={distributor_id}"): no header, no timeout
TopDistributorRequest(id) == [endpoint |-> "topDistributor", id |-> id, accept |-> "none", timeout |-> 0]

\* `return v`
Return(v, req, n) ==
  [exit |-> "return", result |-> v, exc |-> "none", request |-> req, parses |-> n,
   response |-> None, stdout |-> <<>>]
\* the end of the function body is reached: Python returns None
FallThrough(req, n, resp, out) ==
  [exit |-> "implicit", result |-> None, exc |-> "none", request |-> req, parses |-> n,
   response |-> resp, stdout |-> out]
\* an exception leaves the function
Raise(e, req, n, out) ==
  [exit |-> "raise", result |-> None, exc |-> e, request |-> req, parses |-> n,
   response |-> None, stdout |-> out]

-----------------------------------------------------------------------------
(* src/python-version/tools.py: get_employee_data *)

\* requests.get raises a RequestException on a transport failure
GetRaises(outcome) == outcome \in TransportFailures

\* response.raise_for_status() raises HTTPError for a 4xx or 5xx status
RaiseForStatus(st) == 400 <= st /\ st < 600

\* variant: raise_for_status() is not called
RequestFailedTransportOnly(outcome, st) == GetRaises(outcome)

\* `except requests.RequestException` around both
RequestFailed(outcome, st) == GetRaises(outcome) \/ RaiseForStatus(st)

\* `[] if data == "id" else []`
EmptyFor(d) == IF d = "id" THEN EmptyList ELSE EmptyList

\* variant: no second parse, a body response.json() rejects is given up
ParsePayloadNoRetry(b) ==
  LET first == response_json(b) IN
  IF first.ok THEN [ok |-> TRUE, payload |-> first.val, parses |-> 1]
  ELSE [ok |-> FALSE, payload |-> None, parses |-> 1]

\* lines 50-60: response.json(), and on ValueError json.loads(text.strip()).
\* ok: a payload was decoded; parses: the parses attempted
ParsePayload(b) ==
  LET first == response_json(b) IN
  IF first.ok THEN [ok |-> TRUE, payload |-> first.val, parses |-> 1]
  ELSE LET text == strip(b) IN
       IF text = <<>> THEN [ok |-> FALSE, payload |-> None, parses |-> 1]
       ELSE LET second == json_loads(text) IN
            IF second.ok THEN [ok |-> TRUE, payload |-> second.val, parses |-> 2]
            ELSE [ok |-> FALSE, payload |-> None, parses |-> 2]

RECURSIVE SetToSeq(_)
SetToSeq(S) ==
  IF S = {} THEN <<>> ELSE LET x == CHOOSE y \in S : TRUE IN <<x>> \o SetToSeq(S \ {x})

\* `for x in payload` is defined for a list, a dict (its keys) and a str (its
\* characters); any other payload raises TypeError
Iterable(p) == p.t \in {"list", "dict", "str"}
Iterate(p) ==
  CASE p.t = "list" -> p.items
    [] p.t = "dict" -> LET ks == SetToSeq(DOMAIN p.d) IN [i \in 1..Len(ks) |-> PyStr(<<ks[i]>>)]
    [] p.t = "str"  -> [i \in 1..Len(p.chars) |-> PyStr(<<p.chars[i]>>)]

KeepsEmpId(x) == isinstance_dict(x) /\ HasKey(x, "EMP_ID")

\* variant: [x for x in payload if ...], the record instead of its EMP_ID
EmpIdsWholeRecords(xs) == PyList(SelectSeq(xs, KeepsEmpId))

\* [x['EMP_ID'] for x in payload if isinstance(x, dict) and 'EMP_ID' in x]
EmpIds(xs) ==
  LET kept == SelectSeq(xs, KeepsEmpId) IN
  PyList([i \in 1..Len(kept) |-> kept[i].d.EMP_ID])

\* variant: every filter but "id" is treated as "all"
SelectResultDefaultAll(d, p, n) ==
  IF d = "id"
    THEN IF Iterable(p) THEN Return(EmpIds(Iterate(p)), EmployeeRequest, n)
         ELSE Raise("TypeError", EmployeeRequest, n, <<>>)
  ELSE Return(p, EmployeeRequest, n)

\* lines 62-65
SelectResult(d, p, n) ==
  IF d = "all" THEN Return(p, EmployeeRequest, n)
  ELSE IF d = "id"
    THEN IF Iterable(p) THEN Return(EmpIds(Iterate(p)), EmployeeRequest, n)
         ELSE Raise("TypeError", EmployeeRequest, n, <<>>)
  ELSE FallThrough(EmployeeRequest, n, None, <<>>)

\* variant: json.loads(text) outside a try, its ValueError leaves the call
get_employee_data_unguarded(d, outcome, st, b) ==
  IF RequestFailed(outcome, st) THEN Return(EmptyFor(d), EmployeeRequest, 0)
  ELSE LET first == response_json(b) IN
       IF first.ok THEN SelectResult(d, first.val, 1)
       ELSE LET text == strip(b) IN
            IF text = <<>> THEN Return(EmptyFor(d), EmployeeRequest, 1)
            ELSE LET second == json_loads(text) IN
                 IF second.ok THEN SelectResult(d, second.val, 2)
                 ELSE Raise("JSONDecodeError", EmployeeRequest, 2, <<>>)

get_employee_data(d, outcome, st, b) ==
  IF RequestFailed(outcome, st) THEN Return(EmptyFor(d), EmployeeRequest, 0)
  ELSE LET p == ParsePayload(b) IN
       IF ~p.ok THEN Return(EmptyFor(d), EmployeeRequest, p.parses)
       ELSE SelectResult(d, p.payload, p.parses)

-----------------------------------------------------------------------------
(* get_distributor_data, in both files *)

\* src/tools.py
sample_distributor_ids == <<10001520, 10001519, 10001507, 10001515>>
\* variant: two ids exchanged
pv_sample_distributor_ids_swapped == <<10001520, 10001519, 10001515, 10001507>>

\* src/python-version/tools.py
pv_sample_distributor_ids == <<10001520, 10001519, 10001507, 10001515>>

IntList(ns) == PyList([i \in 1..Len(ns) |-> PyInt(ns[i])])

get_distributor_data == Return(IntList(sample_distributor_ids), NoRequest, 0)
pv_get_distributor_data == Return(IntList(pv_sample_distributor_ids), NoRequest, 0)

-----------------------------------------------------------------------------
(* src/tools.py: get_customer_data *)

\* requests.get raises on a transport failure; there is no raise_for_status,
\* so the body is parsed whatever the status
\* variant: failures turned into the empty list, as get_employee_data does
get_customer_data_guarded(id, outcome, b) ==
  IF GetRaises(outcome) THEN Return(EmptyList, TopDistributorRequest(id), 0)
  ELSE LET j == response_json(b) IN
       IF j.ok THEN Return(j.val, TopDistributorRequest(id), 1)
       ELSE Return(EmptyList, TopDistributorRequest(id), 1)

get_customer_data(id, outcome, b) ==
  IF GetRaises(outcome) THEN Raise("RequestException", TopDistributorRequest(id), 0, <<>>)
  ELSE LET j == response_json(b) IN
       IF j.ok THEN Return(j.val, TopDistributorRequest(id), 1)
       ELSE Raise("JSONDecodeError", TopDistributorRequest(id), 1, <<>>)

-----------------------------------------------------------------------------
(* src/python-version/tools.py: get_distributor_performance *)

\* the exception response[0] raises, "none" when it yields a value
SubscriptFault(p) ==
  CASE p.t = "list" -> IF p.items = <<>> THEN "IndexError" ELSE "none"
    [] p.t = "str"  -> IF p.chars = <<>> THEN "IndexError" ELSE "none"
    [] p.t = "dict" -> "KeyError"
    [] OTHER        -> "TypeError"

\* response[0]
First(p) == IF p.t = "list" THEN p.items[1] ELSE PyStr(<<p.chars[1]>>)

\* the exception x['TOTAL_SALES'] raises, "none" when it yields a value
KeyFault(x) ==
  IF isinstance_dict(x)
    THEN IF HasKey(x, "TOTAL_SALES") THEN "none" ELSE "KeyError"
    ELSE "TypeError"

\* lambda x: x['TOTAL_SALES']
SalesKey(x) == x.d.TOTAL_SALES.n

\* the first exception the key function raises over the list, "none" if none
RECURSIVE KeysFault(_)
KeysFault(xs) ==
  IF xs = <<>> THEN "none"
  ELSE IF KeyFault(Head(xs)) # "none" THEN KeyFault(Head(xs))
  ELSE KeysFault(Tail(xs))

\* x put behind every element of the sorted list whose key is not larger
RECURSIVE InsertByKey(_, _)
InsertByKey(sorted, x) ==
  IF sorted = <<>> THEN <<x>>
  ELSE IF SalesKey(Head(sorted)) <= SalesKey(x)
    THEN <<Head(sorted)>> \o InsertByKey(Tail(sorted), x)
  ELSE <<x>> \o sorted

RECURSIVE SortFrom(_, _)
SortFrom(sorted, xs) ==
  IF xs = <<>> THEN sorted ELSE SortFrom(InsertByKey(sorted, Head(xs)), Tail(xs))

\* variant: sorted(response, key=...) with its result dropped, the list is
\* left as it came
sort_not_in_place(xs) == xs

\* response.sort(key=lambda x: x['TOTAL_SALES']): ascending and stable
sort_by_total_sales(xs) == SortFrom(<<>>, xs)

\* lines 91-93 on the decoded payload p
PrintSortPrint(id, p) ==
  LET req == TopDistributorRequest(id) IN
  IF SubscriptFault(p) # "none" THEN Raise(SubscriptFault(p), req, 1, <<>>)
  ELSE IF p.t # "list" THEN Raise("AttributeError", req, 1, <<First(p)>>)
  ELSE IF KeysFault(p.items) # "none" THEN Raise(KeysFault(p.items), req, 1, <<First(p)>>)
  ELSE LET sorted == PyList(sort_by_total_sales(p.items)) IN
       FallThrough(req, 1, sorted, <<First(p), First(sorted)>>)

get_distributor_performance(id, m, outcome, b) ==
  IF GetRaises(outcome) THEN Raise("RequestException", TopDistributorRequest(id), 0, <<>>)
  ELSE LET j == response_json(b) IN
       IF j.ok THEN PrintSortPrint(id, j.val)
       ELSE Raise("JSONDecodeError", TopDistributorRequest(id), 1, <<>>)

-----------------------------------------------------------------------------
(* The state machine *)

\* the call entered: which function, with which arguments
Called(f, d, id, m) ==
  /\ fn' = f
  /\ data' = d
  /\ distributor_id' = id
  /\ mode' = m

\* the call left: how, and with what
Ended(r) ==
  /\ exit' = r.exit
  /\ result' = r.result
  /\ exc' = r.exc
  /\ request' = r.request
  /\ parses' = r.parses
  /\ response' = r.response
  /\ stdout' = r.stdout

Init ==
  /\ reqOutcome \in Outcomes
  /\ status \in IF reqOutcome = "response" THEN Statuses ELSE {0}
  /\ body \in IF reqOutcome # "response" THEN {<<>>}
              ELSE IF status = 200 THEN Bodies
              ELSE ShortBodies
  /\ fn = "none"
  /\ data = "none"
  /\ distributor_id = 0
  /\ mode = "none"
  /\ exit = "none"
  /\ result = None
  /\ exc = "none"
  /\ request = NoRequest
  /\ parses = 0
  /\ response = None
  /\ stdout = <<>>

GetEmployeeData ==
  \E d \in Filters :
    /\ Called("get_employee_data", d, 0, "none")
    /\ Ended(get_employee_data(d, reqOutcome, status, body))
    /\ UNCHANGED env

GetDistributorData ==
  /\ Called("get_distributor_data", "none", 0, "none")
  /\ Ended(get_distributor_data)
  /\ UNCHANGED env

PvGetDistributorData ==
  /\ Called("pv_get_distributor_data", "none", 0, "none")
  /\ Ended(pv_get_distributor_data)
  /\ UNCHANGED env

GetCustomerData ==
  \E id \in DistributorIds :
    /\ Called("get_customer_data", "none", id, "none")
    /\ Ended(get_customer_data(id, reqOutcome, body))
    /\ UNCHANGED env

GetDistributorPerformance ==
  \E id \in DistributorIds, m \in Modes :
    /\ Called("get_distributor_performance", "none", id, m)
    /\ Ended(get_distributor_performance(id, m, reqOutcome, body))
    /\ UNCHANGED env

\* line 97, run when src/python-version/tools.py is loaded:
\* print(get_employee_data("id")); the server's answer to it is whatever the
\* environment holds
LoadModule ==
  LET r == get_employee_data("id", reqOutcome, status, body) IN
  /\ Called("module", "id", 0, "none")
  /\ Ended(IF r.exit = "return" THEN [r EXCEPT !.stdout = <<r.result>>] ELSE r)
  /\ UNCHANGED env

Next ==
  \/ LoadModule
  \/ GetEmployeeData
  \/ GetDistributorData
  \/ PvGetDistributorData
  \/ GetCustomerData
  \/ GetDistributorPerformance

Spec == Init /\ [][Next]_vars

-----------------------------------------------------------------------------
(* Vocabulary of the properties *)

EmployeeCall(filters) == fn = "get_employee_data" /\ data \in filters
CustomerCall == fn \in {"get_customer_data", "get_distributor_performance"}

Responded == reqOutcome = "response"
TransportFailed == reqOutcome \in {"ConnectionError", "Timeout"}
\* the request failed: no response, or a 4xx/5xx response
Rejected == TransportFailed \/ (Responded /\ status >= 400 /\ status <= 599)

FirstParseOk == json_loads(body).ok
SecondParseOk == ~FirstParseOk /\ strip(body) # <<>> /\ json_loads(strip(body)).ok
Parsed == FirstParseOk \/ SecondParseOk

IsAtom(tok) == tok \in AtomToks
\* the elements of a well-formed flat array, read off its text
Elements(b) ==
  LET atoms == SelectSeq(b, IsAtom) IN [i \in 1..Len(atoms) |-> AtomVal(atoms[i])]
IsArray(b) == strip(b) # <<>> /\ Head(strip(b)) = "["

Occurrences(xs, v) == Cardinality({i \in 1..Len(xs) : xs[i] = v})

-----------------------------------------------------------------------------
(* C1 *)

\* C1: whenever the request fails (transport exception, or a 4xx/5xx status
\* rejected by raise_for_status), get_employee_data("all") and
\* get_employee_data("id") return the empty list and no JSON parse of the
\* body is attempted.
C1_RequestFailureReturnsEmpty ==
  (EmployeeCall({"all", "id"}) /\ Rejected)
    => (exit = "return" /\ result = EmptyList /\ parses = 0 /\ exc = "none")

\* a 500 response carrying a non-empty array, asked for "all": [] comes back
C1_Witness ==
  /\ EmployeeCall({"all"})
  /\ Responded /\ status = 500
  /\ body = <<"[", "E1", "]">>
  /\ result = EmptyList
  /\ parses = 0

-----------------------------------------------------------------------------
(* C2 *)

\* C2: get_employee_data("id") on a decoded payload that is a list returns
\* exactly the EMP_ID values of the elements that are dicts holding EMP_ID,
\* in the payload's order; all other elements contribute nothing.
C2_IdProjection ==
  (EmployeeCall({"id"}) /\ ~Rejected /\ Parsed /\ IsArray(body))
    => LET xs == Elements(body)
           picks == {i \in 1..Len(xs) : xs[i].t = "dict" /\ "EMP_ID" \in DOMAIN xs[i].d}
           rank(i) == Cardinality({j \in picks : j <= i})
       IN /\ exit = "return"
          /\ result.t = "list"
          /\ Len(result.items) = Cardinality(picks)
          /\ \A i \in picks : result.items[rank(i)] = xs[i].d.EMP_ID

\* [{EMP_ID:1},{EMP_ID:2},{TOTAL_SALES:..}] yields ["1","2"]
C2_Witness ==
  /\ EmployeeCall({"id"})
  /\ Responded /\ status = 200
  /\ body = <<"[", "E1", ",", "E2", ",", "T10", "]">>
  /\ result = PyList(<<PyStr(<<"1">>), PyStr(<<"2">>)>>)

-----------------------------------------------------------------------------
(* C3 *)

\* C3: get_employee_data("all") on a body that parses as a JSON array, on the
\* first parse or on the second one after stripping, returns the decoded
\* array: the same elements in the same order, nothing projected or dropped.
C3_AllPassThrough ==
  (EmployeeCall({"all"}) /\ ~Rejected /\ Parsed /\ IsArray(body))
    => (exit = "return" /\ result = PyList(Elements(body)))

\* an array behind a form feed: only the second parse decodes it
C3_Witness ==
  /\ EmployeeCall({"all"})
  /\ Responded /\ status = 200
  /\ body = <<"ff", "[", "E1", ",", "T50", "]">>
  /\ parses = 2
  /\ result = PyList(<<AtomVal("E1"), AtomVal("T50")>>)

-----------------------------------------------------------------------------
(* C4 *)

\* C4: when the response is accepted and the first parse of the body fails,
\* get_employee_data("all"/"id") returns the empty list, raising nothing, if
\* the body is empty after stripping; otherwise a second parse of the
\* stripped body is attempted and, if it fails too, the call returns the
\* empty list, raising nothing.
C4_ParseFallback ==
  (EmployeeCall({"all", "id"}) /\ ~Rejected /\ ~FirstParseOk)
    => /\ strip(body) = <<>>
            => (exit = "return" /\ exc = "none" /\ result = EmptyList)
       /\ strip(body) # <<>> => parses = 2
       /\ (strip(body) # <<>> /\ ~json_loads(strip(body)).ok)
            => (exit = "return" /\ exc = "none" /\ result = EmptyList)

\* a truncated array: both parses fail
C4_Witness ==
  /\ EmployeeCall({"id"})
  /\ Responded /\ status = 200
  /\ body = <<"sp", "[", "E1", ",", "E2">>
  /\ parses = 2
  /\ exit = "return"
  /\ result = EmptyList

\* the empty body
C4_WitnessEmpty ==
  /\ EmployeeCall({"all"})
  /\ Responded /\ status = 200
  /\ body = <<>>
  /\ exit = "return"
  /\ result = EmptyList

-----------------------------------------------------------------------------
(* C5 *)

\* C5: get_employee_data("all"/"id") never lets an exception out: on every
\* request outcome and every body, also one that parses as JSON of any
\* shape, the call ends by returning a value.
C5_NoExceptionEscapes ==
  EmployeeCall({"all", "id"}) => (exit = "return" /\ exc = "none")

-----------------------------------------------------------------------------
(* C6 *)

\* C6: get_customer_data and get_distributor_performance, given a response
\* whose body is a JSON array, have sent a GET for topDistributor with the
\* distributor id and return the decoded array.
C6_CustomerFetchReturnsArray ==
  (CustomerCall /\ Responded /\ FirstParseOk /\ IsArray(body))
    => /\ request = [endpoint |-> "topDistributor", id |-> distributor_id,
                     accept |-> "none", timeout |-> 0]
       /\ exit = "return"
       /\ result.t = "list"
       /\ \A v \in {result.items[i] : i \in 1..Len(result.items)} \cup
                   {Elements(body)[i] : i \in 1..Len(Elements(body))} :
            Occurrences(result.items, v) = Occurrences(Elements(body), v)

\* the part of C6 that is about get_customer_data alone holds
C6_GetCustomerDataReturnsArray ==
  (fn = "get_customer_data" /\ Responded /\ FirstParseOk /\ IsArray(body))
    => /\ request = [endpoint |-> "topDistributor", id |-> distributor_id,
                     accept |-> "none", timeout |-> 0]
       /\ exit = "return"
       /\ result = PyList(Elements(body))

-----------------------------------------------------------------------------
(* C7 *)

\* C7: in get_customer_data and get_distributor_performance a transport
\* failure or a body that is not valid JSON leaves the call as an exception
\* (the request exception, the JSON decode error) and no value is returned,
\* whereas get_employee_data("all"/"id") returns the empty list when the
\* transport fails or the body is not JSON.
C7_CustomerFetchPropagates ==
  /\ (CustomerCall /\ TransportFailed)
       => (exit = "raise" /\ exc = "RequestException" /\ result = None)
  /\ (CustomerCall /\ Responded /\ ~FirstParseOk)
       => (exit = "raise" /\ exc = "JSONDecodeError" /\ result = None)
  /\ (EmployeeCall({"all", "id"}) /\ (TransportFailed \/ (Responded /\ ~Parsed)))
       => (exit = "return" /\ result = EmptyList)

\* a truncated array answers get_customer_data: JSONDecodeError
C7_Witness ==
  /\ fn = "get_customer_data"
  /\ Responded /\ status = 200
  /\ body = <<"[", "T50", ",", "T10">>
  /\ exit = "raise"
  /\ exc = "JSONDecodeError"

-----------------------------------------------------------------------------
(* C8 *)

HasTotalSales(x) == x.t = "dict" /\ "TOTAL_SALES" \in DOMAIN x.d

\* C8: when the customer data is a non-empty array whose records all hold
\* TOTAL_SALES, the list get_distributor_performance has sorted is a
\* permutation of the records received, in non-decreasing TOTAL_SALES order,
\* so its first record (the one printed after the sort) has the minimum.
C8_SortedAscending ==
  LET xs == Elements(body) IN
  (/\ fn = "get_distributor_performance"
   /\ Responded /\ FirstParseOk /\ IsArray(body)
   /\ xs # <<>>
   /\ \A i \in 1..Len(xs) : HasTotalSales(xs[i]))
    => /\ exc = "none"
       /\ response.t = "list"
       /\ Len(response.items) = Len(xs)
       /\ \A i \in 1..Len(xs) :
            Occurrences(response.items, xs[i]) = Occurrences(xs, xs[i])
       /\ \A i \in 1..Len(xs), j \in 1..Len(xs) :
            i <= j => response.items[i].d.TOTAL_SALES.n <= response.items[j].d.TOTAL_SALES.n
       /\ \A i \in 1..Len(xs) :
            response.items[1].d.TOTAL_SALES.n <= xs[i].d.TOTAL_SALES.n
       /\ stdout = <<xs[1], response.items[1]>>

\* records with 50 and 10: the 10-valued record comes first
C8_Witness ==
  /\ fn = "get_distributor_performance"
  /\ Responded /\ status = 200
  /\ body = <<"[", "T50", ",", "T10", "]">>
  /\ response = PyList(<<AtomVal("T10"), AtomVal("T50")>>)
  /\ stdout = <<AtomVal("T50"), AtomVal("T10")>>

-----------------------------------------------------------------------------
(* C9 *)

C9_WitnessRoot ==
  /\ fn = "get_distributor_data"
  /\ Responded /\ ~Parsed
  /\ exit = "return"
  /\ Len(result.items) = 4

-----------------------------------------------------------------------------
(* C10 *)

\* C10 as stated: with a filter other than "all" and "id", get_employee_data
\* falls through without an explicit return on every request outcome.
C10_AlwaysFallsThrough ==
  (fn = "get_employee_data" /\ data \notin {"all", "id"})
    => (exit = "implicit" /\ result = None)

\* C10 amended: with a filter other than "all" and "id", get_employee_data
\* raises nothing and returns neither the payload nor a projection of it; it
\* falls through, returning None, only when the body was decoded; when the
\* request failed or the body could not be parsed it returns the empty list
\* through the explicit return.
C10_FallsThroughOnlyWhenParsed ==
  (fn = "get_employee_data" /\ data \notin {"all", "id"})
    => /\ exc = "none"
       /\ (~Rejected /\ Parsed) => (exit = "implicit" /\ result = None)
       /\ (Rejected \/ ~Parsed) => (exit = "return" /\ result = EmptyList)

\* a decoded, non-empty payload and the filter "name": None comes back
C10_Witness ==
  /\ fn = "get_employee_data" /\ data = "name"
  /\ Responded /\ status = 200
  /\ body = <<"[", "E1", "]">>
  /\ exit = "implicit"
  /\ result = None

====
